---- MODULE Spec2Model ----
(***************************************************************************)
(* Model of the Player One camera SDK examples:                            *)
(*   examples/C/main.c          the C example program          (prog "c")  *)
(*   examples/C++/main.cpp      the C++ example program        (prog "cpp")*)
(*   examples/C++/POACamera.cpp the POACamera wrapper class, driven by an  *)
(*                              arbitrary caller               (prog "obj")*)
(* The closed SDK is the environment: every call returns a status chosen   *)
(* nondeterministically, takes effect on the camera only when it returns   *)
(* POA_OK, and leaves its out-parameters untouched when it fails.          *)
(***************************************************************************)
EXTENDS Integers, Sequences, FiniteSets, TLC

\* ---------------------------------------------------------------- bounds
MaxCameras == 2
MaxConfigs == 1
MaxSensorModes == 1

\* ------------------------------------------------------ program constants
FrameCount == 10
VideoLimit == 20
CppWidth == 800
CppHeight == 480
CppStartX == 100
CppStartY == 100
CppExposureUs == 100000
CppGain == 50
ExposureUs == 100000
SnapExposureUs == 5000000
Gain == 100
FanPower == 80
HeaterPower == 30
DefaultCameraID == -1
GetExposureFailed == -1
GetGainFailed == -1
TimeoutMarginMs == 500
Int32Max == 2147483647

\* ------------------------------------------------------------ SDK values
POA_OK == "POA_OK"
Errors == {"POA_ERROR_INVALID_ID", "POA_ERROR_OPERATION_FAILED"}
Statuses == {POA_OK} \cup Errors
CameraStates == {"STATE_CLOSED", "STATE_OPENED", "STATE_EXPOSING"}
POAImgFormats == {"POA_RAW8", "POA_RAW16", "POA_RGB24", "POA_MONO8"}
ImageFormats == {"RAW8", "RAW16", "RGB888", "MONO8"}

\* the camera whose state the model tracks; other valid IDs are other cameras
FirstCameraID == 0
CameraIDs == 0..(MaxCameras - 1)
Handles == {DefaultCameraID} \cup CameraIDs

\* properties of the first camera (maxWidth, maxHeight, bins[1], cooler)
Sensors ==
  { [maxWidth |-> 1700, maxHeight |-> 1000, bin |-> 2, isHasCooler |-> TRUE] }

\* further sensors, for the arithmetic on the image size: one whose binned
\* size is below the margins main.c subtracts, one whose frame does not fit
\* in a 32-bit byte count
SizeSensors ==
  Sensors \cup
  { [maxWidth |-> 100, maxHeight |-> 40, bin |-> 2, isHasCooler |-> FALSE],
    [maxWidth |-> 80000, maxHeight |-> 60000, bin |-> 2, isHasCooler |-> FALSE] }

\* contents a POACameraProperties block can have when it was never written
Garbage ==
  { [maxWidth |-> 800, maxHeight |-> 480, bin |-> 2, isHasCooler |-> FALSE] }

\* values the caller of a POACamera object passes in
RoiInputs ==
  { [startX |-> CppStartX, startY |-> CppStartY, width |-> CppWidth,
     height |-> CppHeight],
    [startX |-> 0, startY |-> 20, width |-> 640, height |-> 400] }
ExposureInputs == {CppExposureUs, 1500}
GainInputs == {CppGain, 0}
BufferSizes == {CppWidth * CppHeight}

\* values the SDK can report for the exposure and the gain
SdkExposures == {0, 1500, CppExposureUs, Int32Max}
SdkGains == {CppGain}

VARIABLES
  prog,          \* which program runs: "c", "cpp" or "obj"
  pc,            \* position of the program
  cam,           \* SDK side: state of the camera FirstCameraID
  sensor,        \* SDK side: properties of the camera FirstCameraID
  calls,         \* SDK calls issued by the last step, in order
  printed,       \* POAGetErrorString messages printed by the last step
  console,       \* other console lines printed by the last step
  op,            \* POACamera operation performed by the last step
  props,         \* main.c: *ppPOACamProp[0]
  cmeraState,    \* main.c: POACameraState cmeraState of the snap wait
  startX, startY, width, height,   \* main.c locals
  exposure_us,   \* main.c: int exposure_us
  buffer_size,   \* main.c: buffer_size
  img_cout,      \* main.c / main.cpp: int img_cout
  pIsReady,      \* main.c: POABool pIsReady
  count,         \* main.c: int count of the video loop
  files,         \* names of the files written so far, in order
  m_nCameraID,   \* POACamera::m_nCameraID
  openOK,        \* history: POAOpenCamera returned POA_OK
  initOK,        \* history: POAInitCamera returned POA_OK
  closeCount,    \* history: number of POACloseCamera calls
  readySeen,     \* history: a poll saw the image ready since the last fetch
  videoGot       \* history: images retrieved by the video loop

sdkVars == <<cam, sensor>>
stepVars == <<calls, printed, console, op>>
enumVars == <<props>>
roiVars == <<startX, startY, width, height>>
loopVars == <<img_cout, pIsReady, count, files>>
miscVars == <<cmeraState, exposure_us, buffer_size>>
cVars == <<enumVars, roiVars, miscVars>>
lifeVars == <<openOK, initOK, closeCount>>
histVars == <<lifeVars, readySeen, videoGot>>
vars == <<prog, pc, sdkVars, stepVars, cVars, loopVars, m_nCameraID, histVars>>

\* ------------------------------------------------------------ SDK model
\* One SDK call as the program issued it: function, camera handle, returned
\* status, argument values and the values written to its out-parameters.
CallOut(fn, id, st, args, out) ==
  [fn |-> fn, id |-> id, st |-> st, args |-> args, out |-> out]

Call(fn, id, st, args) == CallOut(fn, id, st, args, <<>>)

\* Statuses the SDK can return for a handle: an invalid handle is refused, a
\* valid one succeeds or fails.
Results(id) ==
  IF id \in CameraIDs THEN {POA_OK, "POA_ERROR_OPERATION_FAILED"}
                      ELSE {"POA_ERROR_INVALID_ID"}

\* Statuses POAGetCameraProperties can return for a camera index.
IndexResults == {POA_OK, "POA_ERROR_OPERATION_FAILED"}

\* A call changes the tracked camera only when it succeeds on its handle.
Touches(id, st) == st = POA_OK /\ id = FirstCameraID

\* Bytes per pixel of an SDK image format (main.c:322).
PixelBytes(fmt) ==
  CASE fmt = "POA_RAW16" -> 2
    [] fmt = "POA_RGB24" -> 3
    [] OTHER -> 1

\* Camera after construction of the SDK: closed, full resolution at (0, 0),
\* RAW8 (main.c:130, 165, 174, 182: the defaults named in the comments).
DefaultCam(s) ==
  [state |-> "STATE_CLOSED", width |-> s.maxWidth, height |-> s.maxHeight,
   startX |-> 0, startY |-> 0, fmt |-> "POA_RAW8", snap |-> FALSE]

SdkOpenCamera(c, id, st) ==
  IF Touches(id, st) /\ c.state = "STATE_CLOSED"
    THEN [c EXCEPT !.state = "STATE_OPENED"] ELSE c

SdkCloseCamera(c, id, st) ==
  IF Touches(id, st) THEN [c EXCEPT !.state = "STATE_CLOSED"] ELSE c

SdkStartExposure(c, id, st, single) ==
  IF Touches(id, st)
    THEN [c EXCEPT !.state = "STATE_EXPOSING", !.snap = single] ELSE c

SdkStopExposure(c, id, st) ==
  IF Touches(id, st) /\ c.state = "STATE_EXPOSING"
    THEN [c EXCEPT !.state = "STATE_OPENED"] ELSE c

SdkSetImageBin(c, s, id, st, bin) ==
  IF Touches(id, st)
    THEN [c EXCEPT !.width = s.maxWidth \div bin,
                   !.height = s.maxHeight \div bin, !.startX = 0, !.startY = 0]
    ELSE c

SdkSetImageSize(c, id, st, w, h) ==
  IF Touches(id, st) THEN [c EXCEPT !.width = w, !.height = h] ELSE c

SdkSetImageStartPos(c, id, st, x, y) ==
  IF Touches(id, st) THEN [c EXCEPT !.startX = x, !.startY = y] ELSE c

SdkSetImageFormat(c, id, st, fmt) ==
  IF Touches(id, st) THEN [c EXCEPT !.fmt = fmt] ELSE c

\* A single-frame exposure ends by itself; a continuous one lasts until stopped.
SdkProgress(c) ==
  IF c.state = "STATE_EXPOSING" /\ c.snap
    THEN {c, [c EXCEPT !.state = "STATE_OPENED"]} ELSE {c}

\* Value read from a POACameraState variable after POAGetCameraState: the
\* camera's state on success, an indeterminate value when the call failed and
\* the variable was never written.
ObservedStates(c, id, st, old) ==
  IF st # POA_OK
    THEN (IF old = "uninit" THEN CameraStates ELSE {old})
    ELSE (IF id = FirstCameraID THEN {c.state} ELSE CameraStates)

\* *ppPOACamProp[0] after POAGetCameraProperties(0, ...): the camera's
\* properties, or whatever the malloc'ed block held when the call failed.
PropertiesRead(s, st) ==
  IF st = POA_OK
    THEN {[cameraID |-> FirstCameraID, maxWidth |-> s.maxWidth,
           maxHeight |-> s.maxHeight, bin |-> s.bin,
           isHasCooler |-> s.isHasCooler]}
    ELSE {[cameraID |-> h, maxWidth |-> g.maxWidth, maxHeight |-> g.maxHeight,
           bin |-> g.bin, isHasCooler |-> g.isHasCooler] :
            h \in Handles, g \in Garbage}

\* ------------------------------------------------------- shared helpers
\* if(error != POA_OK) printf(..., POAGetErrorString(error)) for call i
Report(i, st) == IF st # POA_OK THEN {[call |-> i, code |-> st]} ELSE {}

\* a POACamera operation with the caller's arguments and its return value
Ret(name, args, ret) == [name |-> name, args |-> args, ret |-> ret]

NoOp == Ret("none", <<>>, <<>>)

FileNameOffByOne(n, kind) == ToString(n - 1) \o "_" \o kind \o "_image_data.bin"

\* sprintf(str, "%d_raw16_image_data.bin", img_cout) and the stream version
FileName(n, kind) == ToString(n) \o "_" \o kind \o "_image_data.bin"

CDivFloor(a, b) == a \div b

\* C integer division, truncating toward zero (b > 0)
CDiv(a, b) == IF a >= 0 THEN a \div b ELSE -((-a) \div b)

\* C remainder: the sign follows the dividend (b > 0)
CRem(a, b) == a - CDiv(a, b) * b

Abs(a) == IF a < 0 THEN -a ELSE a

\* a * b * 2 is representable in a 32-bit int (main.c:218), decided without
\* leaving the 32-bit range
FitsInt32(a, b) ==
  \/ a = 0 \/ b = 0
  \/ Abs(a) <= (Int32Max \div 2) \div Abs(b)
  \/ /\ (a < 0) # (b < 0)
     /\ 1073741824 % Abs(b) = 0 /\ Abs(a) = 1073741824 \div Abs(b)

\* 32-bit two's-complement addition
AddWrap(a, b) ==
  IF a > 0 /\ b > 0 /\ a > Int32Max - b
    THEN ((a - Int32Max) - 1) + ((b - Int32Max) - 1)
    ELSE IF a < 0 /\ b < 0 /\ a < (-Int32Max - 1) - b
           THEN ((a + Int32Max) + 1) + ((b + Int32Max) + 1)
           ELSE a + b

RECURSIVE MulWrap(_, _)
\* 32-bit two's-complement multiplication (b >= 0)
MulWrap(a, b) ==
  IF b = 0 THEN 0
  ELSE LET h == MulWrap(AddWrap(a, a), b \div 2)
       IN IF b % 2 = 1 THEN AddWrap(h, a) ELSE h

\* long buffer_size = width * height * 2 (main.c:218): the product is formed
\* in int; when it overflows the behaviour is undefined, and the result is
\* the wrapped product or any other value, represented by the two extremes
BufferSizeOf(w, h) ==
  IF FitsInt32(w, h) THEN {w * h * 2}
  ELSE {MulWrap(IF h >= 0 THEN MulWrap(w, h) ELSE MulWrap(-w, -h), 2),
        Int32Max, -Int32Max - 1}

CaptureLoopStopsEarly(n) == n > 1

\* while(img_cout > 0)
CaptureLoopContinues(n) == n > 0

VideoLoopBreaksLate(n) == n > VideoLimit + 1

\* if(count++ > 20) break;
VideoLoopBreaks(n) == n > VideoLimit

SnapFrameReadyAlways(flag) == TRUE

\* if(pIsReady == POA_TRUE) after the single-frame wait
SnapFrameReady(flag) == flag = TRUE

\* ---------------------------------------------------------------- Init
\* POACamera.cpp:6-14 for the object; main() has no object yet
InitWith(progs, sensors) ==
  /\ prog \in progs
  /\ pc = (CASE prog = "c" -> "c_count" [] prog = "cpp" -> "p_enum"
             [] OTHER -> "obj")
  /\ sensor \in sensors
  /\ cam = DefaultCam(sensor)
  /\ calls = <<>> /\ printed = {} /\ console = <<>>
  /\ props = [cameraID |-> DefaultCameraID, maxWidth |-> 0, maxHeight |-> 0,
              bin |-> 0, isHasCooler |-> FALSE]
  /\ cmeraState = "uninit"
  /\ startX = 0 /\ startY = 0 /\ width = 0 /\ height = 0
  /\ exposure_us = 0 /\ buffer_size = 0
  /\ img_cout = 0 /\ pIsReady = FALSE /\ count = 0 /\ files = <<>>
  /\ IF prog = "obj"
       THEN \/ /\ op = Ret("POACamera", <<>>, <<>>)
               /\ m_nCameraID = DefaultCameraID
            \/ \E nCameraID \in Handles :
                 /\ op = Ret("POACamera", <<nCameraID>>, <<>>)
                 /\ m_nCameraID = nCameraID
       ELSE op = NoOp /\ m_nCameraID = DefaultCameraID
  /\ openOK = FALSE /\ initOK = FALSE /\ closeCount = 0
  /\ readySeen = FALSE /\ videoGot = 0

InitOf(progs) == InitWith(progs, Sensors)

\* the two example programs, before main() starts
Init == InitOf({"c", "cpp"})

\* a POACamera object after either constructor (POACamera.cpp:6-14)
ObjInit == InitOf({"obj"})

\* ============================================================== main.c
\* main.c:16-49: count the cameras and read the properties of each
CEnumerate ==
  /\ pc = "c_count"
  /\ \E camera_count \in 0..MaxCameras :
       IF camera_count <= 0
         THEN /\ pc' = "done"
              /\ calls' = <<>> /\ printed' = {}
              /\ console' = <<"there is no Player One Camera!">>
              /\ props' = props
         ELSE \E sts \in [1..camera_count -> IndexResults] :
                /\ pc' = "c_open"
                /\ calls' = [i \in 1..camera_count |->
                               Call("POAGetCameraProperties", i - 1, sts[i], <<>>)]
                /\ printed' = UNION {Report(i, sts[i]) : i \in 1..camera_count}
                /\ console' = <<>>
                /\ props' \in PropertiesRead(sensor, sts[1])
  /\ op' = NoOp
  /\ UNCHANGED <<prog, sdkVars, roiVars, miscVars, loopVars, m_nCameraID,
                 histVars>>

\* main.c:56-61
COpenCamera ==
  /\ pc = "c_open"
  /\ \E st \in Results(props.cameraID) :
       /\ calls' = <<Call("POAOpenCamera", props.cameraID, st, <<>>)>>
       /\ printed' = Report(1, st)
       /\ cam' = SdkOpenCamera(cam, props.cameraID, st)
       /\ openOK' = (st = POA_OK)
       /\ pc' = IF st # POA_OK THEN "done" ELSE "c_init"
  /\ op' = NoOp /\ console' = <<>>
  /\ UNCHANGED <<prog, sensor, enumVars, roiVars, cmeraState, exposure_us,
                 buffer_size, loopVars, m_nCameraID, initOK, closeCount,
                 readySeen, videoGot>>

\* main.c:64-69
CInitCamera ==
  /\ pc = "c_init"
  /\ \E st \in Results(props.cameraID) :
       /\ calls' = <<Call("POAInitCamera", props.cameraID, st, <<>>)>>
       /\ printed' = Report(1, st)
       /\ initOK' = (st = POA_OK)
       /\ pc' = IF st # POA_OK THEN "done" ELSE "c_cfgcount"
  /\ op' = NoOp /\ console' = <<>>
  /\ UNCHANGED <<prog, sdkVars, enumVars, roiVars, cmeraState, exposure_us,
                 buffer_size, loopVars, m_nCameraID, openOK, closeCount,
                 readySeen, videoGot>>

\* main.c:72-114: count the config attributes and print each
CGetConfigs ==
  /\ pc = "c_cfgcount"
  /\ \E st \in Results(props.cameraID) :
       /\ IF st # POA_OK
            THEN /\ calls' = <<Call("POAGetConfigsCount", props.cameraID, st, <<>>)>>
                 /\ printed' = Report(1, st)
                 /\ pc' = "done"
            ELSE \E config_count \in 0..MaxConfigs :
                 \E sts \in [1..config_count -> Results(props.cameraID)] :
                   /\ calls' = <<Call("POAGetConfigsCount", props.cameraID, st, <<>>)>>
                        \o [i \in 1..config_count |->
                              Call("POAGetConfigAttributes", props.cameraID,
                                   sts[i], <<i - 1>>)]
                   /\ printed' = UNION {Report(i + 1, sts[i]) : i \in 1..config_count}
                   /\ pc' = "c_getstate"
  /\ op' = NoOp /\ console' = <<>>
  /\ UNCHANGED <<prog, sdkVars, enumVars, roiVars, cmeraState, exposure_us,
                 buffer_size, loopVars, m_nCameraID, histVars>>

\* main.c:116-127
CStopIfExposing ==
  /\ pc = "c_getstate"
  /\ \E st \in Results(props.cameraID) :
     \E cameraState \in ObservedStates(cam, props.cameraID, st, "uninit") :
       /\ IF cameraState = "STATE_EXPOSING"
            THEN \E st2 \in Results(props.cameraID) :
                   /\ calls' = <<Call("POAGetCameraState", props.cameraID, st, <<>>),
                                 Call("POAStopExposure", props.cameraID, st2, <<>>)>>
                   /\ cam' = SdkStopExposure(cam, props.cameraID, st2)
            ELSE /\ calls' = <<Call("POAGetCameraState", props.cameraID, st, <<>>)>>
                 /\ cam' = cam
  /\ printed' = {} /\ pc' = "c_setbin" /\ op' = NoOp /\ console' = <<>>
  /\ UNCHANGED <<prog, sensor, enumVars, roiVars, miscVars, loopVars,
                 m_nCameraID, histVars>>

\* main.c:129-135
CSetImageBin ==
  /\ pc = "c_setbin"
  /\ \E st \in Results(props.cameraID) :
       /\ calls' = <<Call("POASetImageBin", props.cameraID, st, <<props.bin>>)>>
       /\ printed' = Report(1, st)
       /\ cam' = SdkSetImageBin(cam, sensor, props.cameraID, st, props.bin)
  /\ pc' = "c_getpos" /\ op' = NoOp /\ console' = <<>>
  /\ UNCHANGED <<prog, sensor, enumVars, roiVars, cmeraState, exposure_us,
                 buffer_size, loopVars, m_nCameraID, histVars>>

\* main.c:137-147
CGetImageStartPos ==
  /\ pc = "c_getpos"
  /\ \E st \in Results(props.cameraID) :
       /\ calls' = <<Call("POAGetImageStartPos", props.cameraID, st, <<>>)>>
       /\ printed' = Report(1, st)
       /\ IF st = POA_OK /\ props.cameraID = FirstCameraID
            THEN startX' = cam.startX /\ startY' = cam.startY
            ELSE startX' = 0 /\ startY' = 0
  /\ pc' = "c_getsize" /\ op' = NoOp /\ console' = <<>>
  /\ UNCHANGED <<prog, sdkVars, enumVars, width, height, cmeraState,
                 exposure_us, buffer_size, loopVars, m_nCameraID, histVars>>

\* main.c:149-156
CGetImageSize ==
  /\ pc = "c_getsize"
  /\ \E st \in Results(props.cameraID) :
       /\ calls' = <<Call("POAGetImageSize", props.cameraID, st, <<>>)>>
       /\ printed' = Report(1, st)
       /\ IF st # POA_OK
            THEN /\ width' = CDiv(props.maxWidth, props.bin)
                 /\ height' = CDiv(props.maxHeight, props.bin)
            ELSE IF props.cameraID = FirstCameraID
                   THEN width' = cam.width /\ height' = cam.height
                   ELSE \E s \in Sensors \cup Garbage :
                          width' = s.maxWidth /\ height' = s.maxHeight
  /\ pc' = "c_setsize" /\ op' = NoOp /\ console' = <<>>
  /\ UNCHANGED <<prog, sdkVars, enumVars, startX, startY, cmeraState,
                 exposure_us, buffer_size, loopVars, m_nCameraID, histVars>>

\* main.c:158-169
CSetImageSize ==
  /\ pc = "c_setsize"
  /\ width' = CDiv(width - 50, 4) * 4
  /\ height' = CDiv(height - 20, 2) * 2
  /\ \E st \in Results(props.cameraID) :
       /\ calls' = <<Call("POASetImageSize", props.cameraID, st,
                          <<width', height'>>)>>
       /\ printed' = Report(1, st)
       /\ cam' = SdkSetImageSize(cam, props.cameraID, st, width', height')
  /\ pc' = "c_setpos" /\ op' = NoOp /\ console' = <<>>
  /\ UNCHANGED <<prog, sensor, enumVars, startX, startY, cmeraState,
                 exposure_us, buffer_size, loopVars, m_nCameraID, histVars>>

\* main.c:171-178
CSetImageStartPos ==
  /\ pc = "c_setpos"
  /\ startX' = startX + 20
  /\ startY' = startY + 10
  /\ \E st \in Results(props.cameraID) :
       /\ calls' = <<Call("POASetImageStartPos", props.cameraID, st,
                          <<startX', startY'>>)>>
       /\ printed' = Report(1, st)
       /\ cam' = SdkSetImageStartPos(cam, props.cameraID, st, startX', startY')
  /\ pc' = "c_setfmt" /\ op' = NoOp /\ console' = <<>>
  /\ UNCHANGED <<prog, sensor, enumVars, width, height, cmeraState,
                 exposure_us, buffer_size, loopVars, m_nCameraID, histVars>>

\* main.c:181-186
CSetImageFormat ==
  /\ pc = "c_setfmt"
  /\ \E st \in Results(props.cameraID) :
       /\ calls' = <<Call("POASetImageFormat", props.cameraID, st,
                          <<"POA_RAW16">>)>>
       /\ printed' = Report(1, st)
       /\ cam' = SdkSetImageFormat(cam, props.cameraID, st, "POA_RAW16")
  /\ pc' = "c_setexp_us" /\ op' = NoOp /\ console' = <<>>
  /\ UNCHANGED <<prog, sensor, enumVars, roiVars, cmeraState, exposure_us,
                 buffer_size, loopVars, m_nCameraID, histVars>>

\* main.c:188-192: the status is stored in error and not looked at
CSetExposureUs ==
  /\ pc = "c_setexp_us"
  /\ exposure_us' = ExposureUs
  /\ \E st \in Results(props.cameraID) :
       /\ calls' = <<Call("POASetConfig", props.cameraID, st,
                          <<"POA_EXPOSURE", ExposureUs, FALSE>>)>>
  /\ printed' = {} /\ pc' = "c_setexp_s" /\ op' = NoOp /\ console' = <<>>
  /\ UNCHANGED <<prog, sdkVars, enumVars, roiVars, cmeraState, buffer_size,
                 loopVars, m_nCameraID, histVars>>

\* main.c:194-202: POA_EXP takes seconds, 0.1 s = exposure_us microseconds
CSetExposureS ==
  /\ pc = "c_setexp_s"
  /\ \E st \in Results(props.cameraID) :
       /\ calls' = <<Call("POASetConfig", props.cameraID, st,
                          <<"POA_EXP", exposure_us, FALSE>>)>>
       /\ printed' = Report(1, st)
  /\ pc' = "c_setgain" /\ op' = NoOp /\ console' = <<>>
  /\ UNCHANGED <<prog, sdkVars, enumVars, roiVars, cmeraState, exposure_us,
                 buffer_size, loopVars, m_nCameraID, histVars>>

\* main.c:204-213
CSetGain ==
  /\ pc = "c_setgain"
  /\ \E st \in Results(props.cameraID) :
       /\ calls' = <<Call("POASetConfig", props.cameraID, st,
                          <<"POA_GAIN", Gain, FALSE>>)>>
       /\ printed' = Report(1, st)
  /\ pc' = "c_start" /\ op' = NoOp /\ console' = <<>>
  /\ UNCHANGED <<prog, sdkVars, enumVars, roiVars, cmeraState, exposure_us,
                 buffer_size, loopVars, m_nCameraID, histVars>>

\* main.c:216-234: allocate the buffer, start the continuous exposure and
\* enter the capture loop
CStartExposure ==
  /\ pc = "c_start"
  /\ buffer_size' \in BufferSizeOf(width, height)
  /\ \E st \in Results(props.cameraID) :
       /\ calls' = <<Call("POAStartExposure", props.cameraID, st, <<FALSE>>)>>
       /\ printed' = Report(1, st)
       /\ cam' = SdkStartExposure(cam, props.cameraID, st, FALSE)
  /\ img_cout' = FrameCount
  /\ pIsReady' = FALSE
  /\ pc' = IF CaptureLoopContinues(img_cout') THEN "c_poll" ELSE "c_stop1"
  /\ op' = NoOp /\ console' = <<>>
  /\ UNCHANGED <<prog, sensor, enumVars, roiVars, cmeraState, exposure_us,
                 count, files, m_nCameraID, histVars>>

\* main.c:235-239: one turn of the busy wait; the status is not looked at
CImageReady ==
  /\ pc = "c_poll"
  /\ \E st \in Results(props.cameraID), ready \in BOOLEAN :
       /\ calls' = <<CallOut("POAImageReady", props.cameraID, st, <<>>,
                             IF st = POA_OK THEN <<ready>> ELSE <<>>)>>
       /\ pIsReady' = IF st = POA_OK THEN ready ELSE pIsReady
       /\ readySeen' = (readySeen \/ (st = POA_OK /\ ready))
  /\ pc' = IF pIsReady' = FALSE THEN "c_poll" ELSE "c_fetch"
  /\ printed' = {} /\ op' = NoOp /\ console' = <<>>
  /\ UNCHANGED <<prog, sdkVars, cVars, img_cout, count, files, m_nCameraID,
                 lifeVars, videoGot>>

\* main.c:241-261
CGetImageData ==
  /\ pc = "c_fetch"
  /\ \E st \in Results(props.cameraID) :
       /\ calls' = <<Call("POAGetImageData", props.cameraID, st,
                          <<buffer_size, CDiv(exposure_us, 1000) + TimeoutMarginMs>>)>>
       /\ printed' = Report(1, st)
       /\ IF st # POA_OK
            THEN /\ pc' = "c_poll"
                 /\ console' = <<>>
                 /\ UNCHANGED <<img_cout, files>>
            ELSE /\ files' = Append(files, FileName(img_cout, "raw16"))
                 /\ console' = <<"saving data: " \o FileName(img_cout, "raw16")>>
                 /\ img_cout' = img_cout - 1
                 /\ pc' = IF CaptureLoopContinues(img_cout')
                            THEN "c_poll" ELSE "c_stop1"
  /\ pIsReady' = FALSE /\ readySeen' = FALSE /\ op' = NoOp
  /\ UNCHANGED <<prog, sdkVars, enumVars, roiVars, cmeraState, exposure_us,
                 buffer_size, count, m_nCameraID, lifeVars, videoGot>>

\* main.c:263-264: the status is not looked at
CStopExposure ==
  /\ pc = "c_stop1"
  /\ \E st \in Results(props.cameraID) :
       /\ calls' = <<Call("POAStopExposure", props.cameraID, st, <<>>)>>
       /\ cam' = SdkStopExposure(cam, props.cameraID, st)
  /\ printed' = {} /\ pc' = "c_snapexp_us" /\ op' = NoOp /\ console' = <<>>
  /\ UNCHANGED <<prog, sensor, cVars, loopVars, m_nCameraID, histVars>>

\* main.c:266-269: the status is stored in error and not looked at
CSetSnapExposureUs ==
  /\ pc = "c_snapexp_us"
  /\ exposure_us' = SnapExposureUs
  /\ \E st \in Results(props.cameraID) :
       /\ calls' = <<Call("POASetConfig", props.cameraID, st,
                          <<"POA_EXPOSURE", SnapExposureUs, FALSE>>)>>
  /\ printed' = {} /\ pc' = "c_snapexp_s" /\ op' = NoOp /\ console' = <<>>
  /\ UNCHANGED <<prog, sdkVars, enumVars, roiVars, cmeraState, buffer_size,
                 loopVars, m_nCameraID, histVars>>

\* main.c:271-278
CSetSnapExposureS ==
  /\ pc = "c_snapexp_s"
  /\ \E st \in Results(props.cameraID) :
       /\ calls' = <<Call("POASetConfig", props.cameraID, st,
                          <<"POA_EXP", exposure_us, FALSE>>)>>
       /\ printed' = Report(1, st)
  /\ pc' = "c_snapstart" /\ op' = NoOp /\ console' = <<>>
  /\ UNCHANGED <<prog, sdkVars, enumVars, roiVars, cmeraState, exposure_us,
                 buffer_size, loopVars, m_nCameraID, histVars>>

\* main.c:280-284: start the single frame; cmeraState is declared unset
CStartSnap ==
  /\ pc = "c_snapstart"
  /\ \E st \in Results(props.cameraID) :
       /\ calls' = <<Call("POAStartExposure", props.cameraID, st, <<TRUE>>)>>
       /\ cam' = SdkStartExposure(cam, props.cameraID, st, TRUE)
  /\ cmeraState' = "uninit"
  /\ console' = <<"start long exposure, single frame: ", "Please waiting 5s...: ">>
  /\ printed' = {} /\ pc' = "c_snapstate" /\ op' = NoOp
  /\ UNCHANGED <<prog, sensor, enumVars, roiVars, exposure_us,
                 buffer_size, loopVars, m_nCameraID, histVars>>

\* main.c:285-293: one turn of do { POAGetCameraState } while(EXPOSING)
CPollSnapState ==
  /\ pc = "c_snapstate"
  /\ \E c2 \in SdkProgress(cam) :
     \E st \in Results(props.cameraID) :
     \E obs \in ObservedStates(c2, props.cameraID, st, cmeraState) :
       /\ cam' = c2
       /\ calls' = <<Call("POAGetCameraState", props.cameraID, st, <<>>)>>
       /\ cmeraState' = obs
       /\ pc' = IF obs = "STATE_EXPOSING" THEN "c_snapstate" ELSE "c_snapready"
  /\ printed' = {} /\ op' = NoOp /\ console' = <<>>
  /\ UNCHANGED <<prog, sensor, enumVars, roiVars, exposure_us,
                 buffer_size, loopVars, m_nCameraID, histVars>>

\* main.c:295-301, 308-311: read the ready flag once
CSnapReady ==
  /\ pc = "c_snapready"
  /\ \E st \in Results(props.cameraID), ready \in BOOLEAN :
       /\ calls' = <<CallOut("POAImageReady", props.cameraID, st, <<>>,
                             IF st = POA_OK THEN <<ready>> ELSE <<>>)>>
       /\ pIsReady' = (st = POA_OK /\ ready)
       /\ readySeen' = (st = POA_OK /\ ready)
  /\ IF SnapFrameReady(pIsReady')
       THEN /\ console' = <<"single frame exposure success">>
            /\ pc' = "c_snapfetch"
       ELSE /\ console' = <<"single frame exposure failed">>
            /\ pc' = "c_vidsetexp"
  /\ printed' = {} /\ op' = NoOp
  /\ UNCHANGED <<prog, sdkVars, cVars, img_cout, count, files, m_nCameraID,
                 lifeVars, videoGot>>

\* main.c:302-306
CSnapGetImageData ==
  /\ pc = "c_snapfetch"
  /\ \E st \in Results(props.cameraID) :
       /\ calls' = <<Call("POAGetImageData", props.cameraID, st,
                          <<buffer_size, CDiv(exposure_us, 1000) + TimeoutMarginMs>>)>>
       /\ printed' = Report(1, st)
  /\ readySeen' = FALSE
  /\ pc' = "c_vidsetexp" /\ op' = NoOp /\ console' = <<>>
  /\ UNCHANGED <<prog, sdkVars, enumVars, roiVars, cmeraState, exposure_us,
                 buffer_size, loopVars, m_nCameraID, lifeVars, videoGot>>

\* main.c:313-317: the status is overwritten by the next call
CSetVideoExposure ==
  /\ pc = "c_vidsetexp"
  /\ exposure_us' = ExposureUs
  /\ \E st \in Results(props.cameraID) :
       /\ calls' = <<Call("POASetConfig", props.cameraID, st,
                          <<"POA_EXPOSURE", ExposureUs, FALSE>>)>>
  /\ console' = <<"set exposure to: " \o ToString(CDiv(ExposureUs, 1000)) \o " ms">>
  /\ printed' = {} /\ pc' = "c_vidstart" /\ op' = NoOp
  /\ UNCHANGED <<prog, sdkVars, enumVars, roiVars, cmeraState, buffer_size,
                 loopVars, m_nCameraID, histVars>>

\* main.c:319-326, 355-358
CStartVideo ==
  /\ pc = "c_vidstart"
  /\ \E st \in Results(props.cameraID) :
       /\ calls' = <<Call("POAStartExposure", props.cameraID, st, <<FALSE>>)>>
       /\ cam' = SdkStartExposure(cam, props.cameraID, st, FALSE)
       /\ IF st = POA_OK
            THEN /\ buffer_size' \in BufferSizeOf(width, height)
                 /\ count' = 0
                 /\ printed' = {}
                 /\ pc' = "c_vidtest"
            ELSE /\ printed' = Report(1, st)
                 /\ pc' = "c_stop2"
                 /\ UNCHANGED <<buffer_size, count>>
  /\ op' = NoOp /\ console' = <<>>
  /\ UNCHANGED <<prog, sensor, enumVars, roiVars, cmeraState, exposure_us,
                 img_cout, pIsReady, files, m_nCameraID, histVars>>

\* main.c:327-334: if(count++ > 20) break; and the top of the loop body
CVideoTest ==
  /\ pc = "c_vidtest"
  /\ count' = count + 1
  /\ IF VideoLoopBreaks(count)
       THEN pc' = "c_stop2" /\ console' = <<>>
       ELSE /\ pc' = "c_vidpoll"
            /\ console' = <<"get image data: " \o ToString(count')>>
  /\ pIsReady' = FALSE
  /\ calls' = <<>> /\ printed' = {} /\ op' = NoOp
  /\ UNCHANGED <<prog, sdkVars, cVars, img_cout, files, m_nCameraID, histVars>>

\* main.c:335-341: one turn of the busy wait; the status is not looked at
CVideoImageReady ==
  /\ pc = "c_vidpoll"
  /\ \E st \in Results(props.cameraID), ready \in BOOLEAN :
       /\ calls' = <<CallOut("POAImageReady", props.cameraID, st, <<>>,
                             IF st = POA_OK THEN <<ready>> ELSE <<>>)>>
       /\ pIsReady' = IF st = POA_OK THEN ready ELSE pIsReady
       /\ readySeen' = (readySeen \/ (st = POA_OK /\ ready))
  /\ pc' = IF pIsReady' = FALSE THEN "c_vidpoll" ELSE "c_vidfetch"
  /\ printed' = {} /\ op' = NoOp /\ console' = <<>>
  /\ UNCHANGED <<prog, sdkVars, cVars, img_cout, count, files, m_nCameraID,
                 lifeVars, videoGot>>

\* main.c:345-352: both outcomes go back to the loop test
CVideoGetImageData ==
  /\ pc = "c_vidfetch"
  /\ \E st \in Results(props.cameraID) :
       /\ calls' = <<Call("POAGetImageData", props.cameraID, st,
                          <<buffer_size, CDiv(exposure_us, 1000) + TimeoutMarginMs>>)>>
       /\ printed' = Report(1, st)
       /\ videoGot' = videoGot + (IF st = POA_OK THEN 1 ELSE 0)
  /\ readySeen' = FALSE
  /\ pc' = "c_vidtest" /\ op' = NoOp /\ console' = <<>>
  /\ UNCHANGED <<prog, sdkVars, enumVars, roiVars, cmeraState, exposure_us,
                 buffer_size, loopVars, m_nCameraID, lifeVars>>

\* main.c:360: the status is not looked at
CStopVideo ==
  /\ pc = "c_stop2"
  /\ \E st \in Results(props.cameraID) :
       /\ calls' = <<Call("POAStopExposure", props.cameraID, st, <<>>)>>
       /\ cam' = SdkStopExposure(cam, props.cameraID, st)
  /\ printed' = {} /\ pc' = "c_cooler" /\ op' = NoOp /\ console' = <<>>
  /\ UNCHANGED <<prog, sensor, cVars, loopVars, m_nCameraID, histVars>>

\* main.c:362-369, 397-400: the status is not looked at
CCoolerOn ==
  /\ pc = "c_cooler"
  /\ IF props.isHasCooler
       THEN \E st \in Results(props.cameraID) :
              /\ calls' = <<Call("POASetConfig", props.cameraID, st,
                                 <<"POA_COOLER", TRUE, FALSE>>)>>
              /\ console' = <<"Set cooler on! ">>
              /\ pc' = "c_fan"
       ELSE /\ calls' = <<>>
            /\ console' = <<"This camera is not cool camera ">>
            /\ pc' = "c_senmode"
  /\ printed' = {} /\ op' = NoOp
  /\ UNCHANGED <<prog, sdkVars, cVars, loopVars, m_nCameraID, histVars>>

\* main.c:371-375: the status is not looked at
CFanPower ==
  /\ pc = "c_fan"
  /\ \E st \in Results(props.cameraID) :
       calls' = <<Call("POASetConfig", props.cameraID, st,
                       <<"POA_FAN_POWER", FanPower, FALSE>>)>>
  /\ console' = <<"Set fan power to " \o ToString(FanPower)>>
  /\ printed' = {} /\ pc' = "c_heater" /\ op' = NoOp
  /\ UNCHANGED <<prog, sdkVars, cVars, loopVars, m_nCameraID, histVars>>

\* main.c:383-387: the status is not looked at
CHeaterPower ==
  /\ pc = "c_heater"
  /\ \E st \in Results(props.cameraID) :
       calls' = <<Call("POASetConfig", props.cameraID, st,
                       <<"POA_HEATER_POWER", HeaterPower, FALSE>>)>>
  /\ console' = <<"Set heater power to " \o ToString(HeaterPower)>>
  /\ printed' = {} /\ pc' = "c_coolpower" /\ op' = NoOp
  /\ UNCHANGED <<prog, sdkVars, cVars, loopVars, m_nCameraID, histVars>>

\* main.c:389-394: the status is not looked at
CCoolerPower ==
  /\ pc = "c_coolpower"
  /\ \E st \in Results(props.cameraID) :
       calls' = <<Call("POAGetConfig", props.cameraID, st, <<"POA_COOLER_POWER">>)>>
  /\ console' = <<"Get current cool power">>
  /\ printed' = {} /\ pc' = "c_senmode" /\ op' = NoOp
  /\ UNCHANGED <<prog, sdkVars, cVars, loopVars, m_nCameraID, histVars>>

\* main.c:402-422: count the sensor modes and print each; a failed call
\* leaves senModeCount 0 and prints nothing
CSensorModes ==
  /\ pc = "c_senmode"
  /\ \E st \in Results(props.cameraID) :
     \E senModeCount \in (IF st = POA_OK THEN 0..MaxSensorModes ELSE {0}) :
       IF senModeCount <= 0
         THEN /\ calls' = <<Call("POAGetSensorModeCount", props.cameraID, st, <<>>)>>
              /\ console' = <<"This camera does not support sensor mode setting ">>
              /\ pc' = "c_close"
         ELSE \E sts \in [1..senModeCount -> Results(props.cameraID)] :
                /\ calls' = <<Call("POAGetSensorModeCount", props.cameraID, st, <<>>)>>
                     \o [ii \in 1..senModeCount |->
                           Call("POAGetSensorModeInfo", props.cameraID, sts[ii],
                                <<ii - 1>>)]
                /\ console' = <<>>
                /\ pc' = "c_getsenmode"
  /\ printed' = {} /\ op' = NoOp
  /\ UNCHANGED <<prog, sdkVars, cVars, loopVars, m_nCameraID, histVars>>

\* main.c:424-427: the status is not looked at
CGetSensorMode ==
  /\ pc = "c_getsenmode"
  /\ \E st \in Results(props.cameraID) :
       calls' = <<Call("POAGetSensorMode", props.cameraID, st, <<>>)>>
  /\ console' = <<"Get current sensor mode index">>
  /\ printed' = {} /\ pc' = "c_setsenmode" /\ op' = NoOp
  /\ UNCHANGED <<prog, sdkVars, cVars, loopVars, m_nCameraID, histVars>>

\* main.c:429-432: the status is not looked at
CSetSensorMode ==
  /\ pc = "c_setsenmode"
  /\ \E st \in Results(props.cameraID) :
       calls' = <<Call("POASetSensorMode", props.cameraID, st, <<1>>)>>
  /\ console' = <<"Set sensor mode index to 1">>
  /\ printed' = {} /\ pc' = "c_close" /\ op' = NoOp
  /\ UNCHANGED <<prog, sdkVars, cVars, loopVars, m_nCameraID, histVars>>

\* main.c:435-447: the status is not looked at
CCloseCamera ==
  /\ pc = "c_close"
  /\ \E st \in Results(props.cameraID) :
       /\ calls' = <<Call("POACloseCamera", props.cameraID, st, <<>>)>>
       /\ cam' = SdkCloseCamera(cam, props.cameraID, st)
  /\ closeCount' = closeCount + 1
  /\ console' = <<"camera closed! ">>
  /\ printed' = {} /\ pc' = "done" /\ op' = NoOp
  /\ UNCHANGED <<prog, sensor, cVars, loopVars, m_nCameraID, openOK, initOK,
                 readySeen, videoGot>>


\* ======================================================= POACamera.cpp
\* POACamera.cpp:120-127 (also 174-181, 207-214): read the camera state and
\* stop a running exposure; neither status is looked at, and cameraState is
\* read unset when POAGetCameraState failed.
StopIfExposing(c, id) ==
  UNION { UNION { IF obs = "STATE_EXPOSING"
                    THEN { [calls |-> <<Call("POAGetCameraState", id, st, <<>>),
                                        Call("POAStopExposure", id, st2, <<>>)>>,
                            cam |-> SdkStopExposure(c, id, st2)] :
                           st2 \in Results(id) }
                    ELSE { [calls |-> <<Call("POAGetCameraState", id, st, <<>>)>>,
                            cam |-> c] } :
                  obs \in ObservedStates(c, id, st, "uninit") } :
          st \in Results(id) }

\* POACamera.cpp:218-233
ToPOAImgFormat(imgFmt) ==
  CASE imgFmt = "RAW8" -> "POA_RAW8"
    [] imgFmt = "RAW16" -> "POA_RAW16"
    [] imgFmt = "RGB888" -> "POA_RGB24"
    [] imgFmt = "MONO8" -> "POA_MONO8"

FromPOAImgFormatSwapped(poaImgFmt) ==
  CASE poaImgFmt = "POA_RAW8" -> "RAW8"
    [] poaImgFmt = "POA_RAW16" -> "RAW16"
    [] poaImgFmt = "POA_RGB24" -> "MONO8"
    [] poaImgFmt = "POA_MONO8" -> "RGB888"
    [] poaImgFmt = "POA_END" -> "RAW8"

\* POACamera.cpp:255-273
FromPOAImgFormat(poaImgFmt) ==
  CASE poaImgFmt = "POA_RAW8" -> "RAW8"
    [] poaImgFmt = "POA_RAW16" -> "RAW16"
    [] poaImgFmt = "POA_RGB24" -> "RGB888"
    [] poaImgFmt = "POA_MONO8" -> "MONO8"
    [] poaImgFmt = "POA_END" -> "RAW8"

\* POACamera.cpp:21-43 (static)
getALLCameraIDName ==
  /\ \E camera_count \in 0..MaxCameras :
     \E sts \in [1..camera_count -> IndexResults] :
       /\ calls' = [i \in 1..camera_count |->
                      Call("POAGetCameraProperties", i - 1, sts[i], <<>>)]
       /\ op' = Ret("getALLCameraIDName", <<>>,
                    <<{i - 1 : i \in {j \in 1..camera_count : sts[j] = POA_OK}}>>)
  /\ printed' = {}
  /\ UNCHANGED cam

\* POACamera.cpp:45-55
openCamera ==
  /\ \E st \in Results(m_nCameraID) :
       /\ calls' = <<Call("POAOpenCamera", m_nCameraID, st, <<>>)>>
       /\ printed' = Report(1, st)
       /\ cam' = SdkOpenCamera(cam, m_nCameraID, st)
       /\ op' = Ret("openCamera", <<>>, <<st = POA_OK>>)
  /\ UNCHANGED m_nCameraID

\* POACamera.cpp:57-67
initCamera ==
  /\ \E st \in Results(m_nCameraID) :
       /\ calls' = <<Call("POAInitCamera", m_nCameraID, st, <<>>)>>
       /\ printed' = Report(1, st)
       /\ op' = Ret("initCamera", <<>>, <<st = POA_OK>>)
  /\ UNCHANGED <<cam, m_nCameraID>>

\* POACamera.cpp:69-114
getAllConfigAttributes ==
  /\ \E st \in Results(m_nCameraID) :
       IF st # POA_OK
         THEN /\ calls' = <<Call("POAGetConfigsCount", m_nCameraID, st, <<>>)>>
              /\ printed' = Report(1, st)
         ELSE \E config_count \in 0..MaxConfigs :
              \E sts \in [1..config_count -> Results(m_nCameraID)] :
                /\ calls' = <<Call("POAGetConfigsCount", m_nCameraID, st, <<>>)>>
                     \o [i \in 1..config_count |->
                           Call("POAGetConfigAttributes", m_nCameraID, sts[i],
                                <<i - 1>>)]
                /\ printed' = UNION {Report(i + 1, sts[i]) : i \in 1..config_count}
  /\ op' = Ret("getAllConfigAttributes", <<>>, <<>>)
  /\ UNCHANGED <<cam, m_nCameraID>>

setROIAreaIgnoresStartPos(roiArea) ==
  /\ \E o \in StopIfExposing(cam, m_nCameraID) :
     \E st \in Results(m_nCameraID) :
       LET n == Len(o.calls)
           c1 == SdkSetImageSize(o.cam, m_nCameraID, st, roiArea.width,
                                 roiArea.height)
           size == Call("POASetImageSize", m_nCameraID, st,
                        <<roiArea.width, roiArea.height>>)
       IN IF st # POA_OK
            THEN /\ calls' = Append(o.calls, size)
                 /\ printed' = Report(n + 1, st)
                 /\ cam' = c1
                 /\ op' = Ret("setROIArea", <<roiArea>>, <<FALSE>>)
            ELSE \E st2 \in Results(m_nCameraID) :
                   /\ calls' = o.calls \o
                        <<size, Call("POASetImageStartPos", m_nCameraID, st2,
                                     <<roiArea.startX, roiArea.startY>>)>>
                   /\ printed' = Report(n + 2, st2)
                   /\ cam' = SdkSetImageStartPos(c1, m_nCameraID, st2,
                                                 roiArea.startX, roiArea.startY)
                   /\ op' = Ret("setROIArea", <<roiArea>>, <<TRUE>>)
  /\ UNCHANGED m_nCameraID

\* POACamera.cpp:116-147
setROIArea(roiArea) ==
  /\ \E o \in StopIfExposing(cam, m_nCameraID) :
     \E st \in Results(m_nCameraID) :
       LET n == Len(o.calls)
           c1 == SdkSetImageSize(o.cam, m_nCameraID, st, roiArea.width,
                                 roiArea.height)
           size == Call("POASetImageSize", m_nCameraID, st,
                        <<roiArea.width, roiArea.height>>)
       IN IF st # POA_OK
            THEN /\ calls' = Append(o.calls, size)
                 /\ printed' = Report(n + 1, st)
                 /\ cam' = c1
                 /\ op' = Ret("setROIArea", <<roiArea>>, <<FALSE>>)
            ELSE \E st2 \in Results(m_nCameraID) :
                   /\ calls' = o.calls \o
                        <<size, Call("POASetImageStartPos", m_nCameraID, st2,
                                     <<roiArea.startX, roiArea.startY>>)>>
                   /\ printed' = Report(n + 2, st2)
                   /\ cam' = SdkSetImageStartPos(c1, m_nCameraID, st2,
                                                 roiArea.startX, roiArea.startY)
                   /\ op' = Ret("setROIArea", <<roiArea>>, <<st2 = POA_OK>>)
  /\ UNCHANGED m_nCameraID

\* POACamera.cpp:149-167
getROIArea ==
  /\ \E st \in Results(m_nCameraID), st2 \in Results(m_nCameraID) :
     \E c \in (IF m_nCameraID = FirstCameraID THEN {cam}
               ELSE {DefaultCam(g) : g \in Garbage}) :
       /\ calls' = <<CallOut("POAGetImageStartPos", m_nCameraID, st, <<>>,
                             IF st = POA_OK THEN <<c.startX, c.startY>> ELSE <<>>),
                     CallOut("POAGetImageSize", m_nCameraID, st2, <<>>,
                             IF st2 = POA_OK THEN <<c.width, c.height>> ELSE <<>>)>>
       /\ printed' = Report(1, st) \cup Report(2, st2)
       /\ op' = Ret("getROIArea", <<>>,
                    <<[startX |-> IF st = POA_OK THEN c.startX ELSE 0,
                       startY |-> IF st = POA_OK THEN c.startY ELSE 0,
                       width |-> IF st2 = POA_OK THEN c.width ELSE 0,
                       height |-> IF st2 = POA_OK THEN c.height ELSE 0]>>)
  /\ UNCHANGED <<cam, m_nCameraID>>

\* POACamera.cpp:169-190
setImageSize(w, h) ==
  /\ \E o \in StopIfExposing(cam, m_nCameraID) :
     \E st \in Results(m_nCameraID) :
       /\ calls' = Append(o.calls, Call("POASetImageSize", m_nCameraID, st, <<w, h>>))
       /\ printed' = Report(Len(o.calls) + 1, st)
       /\ cam' = SdkSetImageSize(o.cam, m_nCameraID, st, w, h)
       /\ op' = Ret("setImageSize", <<w, h>>, <<st = POA_OK>>)
  /\ UNCHANGED m_nCameraID

\* POACamera.cpp:192-203
setImageStartPos(x, y) ==
  /\ \E st \in Results(m_nCameraID) :
       /\ calls' = <<Call("POASetImageStartPos", m_nCameraID, st, <<x, y>>)>>
       /\ printed' = Report(1, st)
       /\ cam' = SdkSetImageStartPos(cam, m_nCameraID, st, x, y)
       /\ op' = Ret("setImageStartPos", <<x, y>>, <<st = POA_OK>>)
  /\ UNCHANGED m_nCameraID

\* POACamera.cpp:205-242
setImageFormat(imgFmt) ==
  /\ \E o \in StopIfExposing(cam, m_nCameraID) :
     \E st \in Results(m_nCameraID) :
       /\ calls' = Append(o.calls, Call("POASetImageFormat", m_nCameraID, st,
                                        <<ToPOAImgFormat(imgFmt)>>))
       /\ printed' = Report(Len(o.calls) + 1, st)
       /\ cam' = SdkSetImageFormat(o.cam, m_nCameraID, st, ToPOAImgFormat(imgFmt))
       /\ op' = Ret("setImageFormat", <<imgFmt>>, <<st = POA_OK>>)
  /\ UNCHANGED m_nCameraID

\* POACamera.cpp:244-276: poaImgFmt keeps its initial POA_RAW8 when the call fails
getImageFormat ==
  /\ \E st \in Results(m_nCameraID) :
     \E reported \in (IF m_nCameraID = FirstCameraID THEN {cam.fmt}
                      ELSE POAImgFormats \cup {"POA_END"}) :
       LET poaImgFmt == IF st = POA_OK THEN reported ELSE "POA_RAW8"
       IN /\ calls' = <<CallOut("POAGetImageFormat", m_nCameraID, st, <<>>,
                                IF st = POA_OK THEN <<reported>> ELSE <<>>)>>
          /\ printed' = Report(1, st)
          /\ op' = Ret("getImageFormat", <<>>, <<FromPOAImgFormat(poaImgFmt)>>)
  /\ UNCHANGED <<cam, m_nCameraID>>

\* POACamera.cpp:278-292
setExposure(expoUs, isAuto) ==
  /\ \E st \in Results(m_nCameraID) :
       /\ calls' = <<Call("POASetConfig", m_nCameraID, st,
                          <<"POA_EXPOSURE", expoUs, isAuto>>)>>
       /\ printed' = Report(1, st)
       /\ op' = Ret("setExposure", <<expoUs, isAuto>>, <<st = POA_OK>>)
  /\ UNCHANGED <<cam, m_nCameraID>>

\* Outcomes of POACamera::getExposure (POACamera.cpp:294-309): the SDK call
\* and the value returned, -1 when the call failed.
GetExposureOutcomes(id) ==
  { [call |-> CallOut("POAGetConfig", id, POA_OK, <<"POA_EXPOSURE">>, <<us>>),
     value |-> us] : us \in (IF POA_OK \in Results(id) THEN SdkExposures ELSE {}) }
  \cup
  { [call |-> Call("POAGetConfig", id, st, <<"POA_EXPOSURE">>),
     value |-> GetExposureFailed] : st \in Results(id) \ {POA_OK} }

\* POACamera.cpp:294-309
getExposure ==
  /\ \E o \in GetExposureOutcomes(m_nCameraID) :
       /\ calls' = <<o.call>>
       /\ printed' = Report(1, o.call.st)
       /\ op' = Ret("getExposure", <<>>, <<o.value>>)
  /\ UNCHANGED <<cam, m_nCameraID>>

\* POACamera.cpp:311-325
setGain(gain, isAuto) ==
  /\ \E st \in Results(m_nCameraID) :
       /\ calls' = <<Call("POASetConfig", m_nCameraID, st,
                          <<"POA_GAIN", gain, isAuto>>)>>
       /\ printed' = Report(1, st)
       /\ op' = Ret("setGain", <<gain, isAuto>>, <<st = POA_OK>>)
  /\ UNCHANGED <<cam, m_nCameraID>>

\* POACamera.cpp:327-342
getGain ==
  /\ \E st \in Results(m_nCameraID), g \in SdkGains :
       /\ calls' = <<CallOut("POAGetConfig", m_nCameraID, st, <<"POA_GAIN">>,
                             IF st = POA_OK THEN <<g>> ELSE <<>>)>>
       /\ printed' = Report(1, st)
       /\ op' = Ret("getGain", <<>>, <<IF st = POA_OK THEN g ELSE GetGainFailed>>)
  /\ UNCHANGED <<cam, m_nCameraID>>

\* POACamera.cpp:344-355
startExposure ==
  /\ \E st \in Results(m_nCameraID) :
       /\ calls' = <<Call("POAStartExposure", m_nCameraID, st, <<FALSE>>)>>
       /\ printed' = Report(1, st)
       /\ cam' = SdkStartExposure(cam, m_nCameraID, st, FALSE)
       /\ op' = Ret("startExposure", <<>>, <<st = POA_OK>>)
  /\ UNCHANGED m_nCameraID

ImgDataAvailableOnError(st, ready) == IF st # POA_OK THEN TRUE ELSE ready

\* Return value of POACamera::isImgDataAvailable (POACamera.cpp:357-369)
ImgDataAvailable(st, ready) == IF st # POA_OK THEN FALSE ELSE ready

\* POACamera.cpp:357-369: a failing status is not reported
isImgDataAvailable ==
  /\ \E st \in Results(m_nCameraID), ready \in BOOLEAN :
       /\ calls' = <<CallOut("POAImageReady", m_nCameraID, st, <<>>,
                             IF st = POA_OK THEN <<ready>> ELSE <<>>)>>
       /\ op' = Ret("isImgDataAvailable", <<>>, <<ImgDataAvailable(st, ready)>>)
  /\ printed' = {}
  /\ UNCHANGED <<cam, m_nCameraID>>

\* POACamera.cpp:371-377: the failure of the fetch is not reported here
getImageData(size) ==
  /\ \E e \in GetExposureOutcomes(m_nCameraID), st \in Results(m_nCameraID) :
       /\ calls' = <<e.call,
                     Call("POAGetImageData", m_nCameraID, st,
                          <<size, CDiv(e.value, 1000) + TimeoutMarginMs>>)>>
       /\ printed' = Report(1, e.call.st)
       /\ op' = Ret("getImageData", <<size>>, <<st = POA_OK>>)
  /\ UNCHANGED <<cam, m_nCameraID>>

\* POACamera.cpp:379-390
stopExposure ==
  /\ \E st \in Results(m_nCameraID) :
       /\ calls' = <<Call("POAStopExposure", m_nCameraID, st, <<>>)>>
       /\ printed' = Report(1, st)
       /\ cam' = SdkStopExposure(cam, m_nCameraID, st)
       /\ op' = Ret("stopExposure", <<>>, <<st = POA_OK>>)
  /\ UNCHANGED m_nCameraID

closeCameraForgetsHandle ==
  /\ \E st \in Results(m_nCameraID) :
       /\ calls' = <<Call("POACloseCamera", m_nCameraID, st, <<>>)>>
       /\ printed' = Report(1, st)
       /\ cam' = SdkCloseCamera(cam, m_nCameraID, st)
       /\ op' = Ret("closeCamera", <<>>, <<st = POA_OK>>)
  /\ m_nCameraID' = IF calls'[1].st = POA_OK THEN DefaultCameraID ELSE m_nCameraID

\* POACamera.cpp:392-403
closeCamera ==
  /\ \E st \in Results(m_nCameraID) :
       /\ calls' = <<Call("POACloseCamera", m_nCameraID, st, <<>>)>>
       /\ printed' = Report(1, st)
       /\ cam' = SdkCloseCamera(cam, m_nCameraID, st)
       /\ op' = Ret("closeCamera", <<>>, <<st = POA_OK>>)
  /\ UNCHANGED m_nCameraID

\* POACamera.cpp:405-408
getCameraID ==
  /\ calls' = <<>> /\ printed' = {}
  /\ op' = Ret("getCameraID", <<>>, <<m_nCameraID>>)
  /\ UNCHANGED <<cam, m_nCameraID>>

\* POACamera.cpp:410-413
setCameraID(nCameraID) ==
  /\ m_nCameraID' = nCameraID
  /\ calls' = <<>> /\ printed' = {}
  /\ op' = Ret("setCameraID", <<nCameraID>>, <<>>)
  /\ UNCHANGED cam

\* Any caller of a POACamera object: one public operation at a time, in any
\* order (POACamera.h:52-90).
ObjCall ==
  /\ pc = "obj"
  /\ \/ getALLCameraIDName /\ UNCHANGED m_nCameraID
     \/ openCamera
     \/ initCamera
     \/ getAllConfigAttributes
     \/ \E r \in RoiInputs : setROIArea(r)
     \/ getROIArea
     \/ \E r \in RoiInputs : setImageSize(r.width, r.height)
     \/ \E r \in RoiInputs : setImageStartPos(r.startX, r.startY)
     \/ \E f \in ImageFormats : setImageFormat(f)
     \/ getImageFormat
     \/ \E us \in ExposureInputs, a \in BOOLEAN : setExposure(us, a)
     \/ getExposure
     \/ \E g \in GainInputs, a \in BOOLEAN : setGain(g, a)
     \/ getGain
     \/ startExposure
     \/ isImgDataAvailable
     \/ \E size \in BufferSizes : getImageData(size)
     \/ stopExposure
     \/ closeCamera
     \/ getCameraID
     \/ \E h \in Handles : setCameraID(h)
  /\ console' = <<>>
  /\ UNCHANGED <<prog, pc, sensor, cVars, loopVars, histVars>>

\* ============================================================ main.cpp
Min(S) == CHOOSE x \in S : \A y \in S : x <= y

Failed(msg) == IF op'.ret[1] THEN <<>> ELSE <<msg>>

mainFrame == UNCHANGED <<prog, sensor, cVars, pIsReady, count>>

\* main.cpp:19-31: list the cameras and construct the object for the first
PEnumerate ==
  /\ pc = "p_enum"
  /\ getALLCameraIDName
  /\ IF Cardinality(op'.ret[1]) > 0
       THEN m_nCameraID' = Min(op'.ret[1]) /\ pc' = "p_open"
       ELSE m_nCameraID' = m_nCameraID /\ pc' = "done"
  /\ console' = <<>>
  /\ mainFrame /\ UNCHANGED <<img_cout, files, histVars>>

\* main.cpp:33-38
POpenCamera ==
  /\ pc = "p_open"
  /\ openCamera
  /\ console' = Failed("open camera failed!")
  /\ openOK' = op'.ret[1]
  /\ pc' = "p_init"
  /\ mainFrame
  /\ UNCHANGED <<img_cout, files, initOK, closeCount, readySeen, videoGot>>

\* main.cpp:40-44
PInitCamera ==
  /\ pc = "p_init"
  /\ initCamera
  /\ console' = Failed("init camera failed!")
  /\ initOK' = op'.ret[1]
  /\ pc' = "p_attrs"
  /\ mainFrame
  /\ UNCHANGED <<img_cout, files, openOK, closeCount, readySeen, videoGot>>

\* main.cpp:46
PGetAllConfigAttributes ==
  /\ pc = "p_attrs"
  /\ getAllConfigAttributes
  /\ console' = <<>>
  /\ pc' = "p_setsize"
  /\ mainFrame /\ UNCHANGED <<img_cout, files, histVars>>

\* main.cpp:48-51
PSetImageSize ==
  /\ pc = "p_setsize"
  /\ setImageSize(CppWidth, CppHeight)
  /\ console' = Failed("set image size failed!")
  /\ pc' = "p_setpos"
  /\ mainFrame /\ UNCHANGED <<img_cout, files, histVars>>

\* main.cpp:53-56
PSetImageStartPos ==
  /\ pc = "p_setpos"
  /\ setImageStartPos(CppStartX, CppStartY)
  /\ console' = Failed("set start position failed!")
  /\ pc' = "p_setfmt"
  /\ mainFrame /\ UNCHANGED <<img_cout, files, histVars>>

\* main.cpp:58-61
PSetImageFormat ==
  /\ pc = "p_setfmt"
  /\ setImageFormat("RAW8")
  /\ console' = Failed("set image format failed!")
  /\ pc' = "p_setexp"
  /\ mainFrame /\ UNCHANGED <<img_cout, files, histVars>>

\* main.cpp:63-66
PSetExposure ==
  /\ pc = "p_setexp"
  /\ setExposure(CppExposureUs, FALSE)
  /\ console' = Failed("set exposure failed!")
  /\ pc' = "p_setgain"
  /\ mainFrame /\ UNCHANGED <<img_cout, files, histVars>>

\* main.cpp:68-71
PSetGain ==
  /\ pc = "p_setgain"
  /\ setGain(CppGain, FALSE)
  /\ console' = Failed("set gain failed!")
  /\ pc' = "p_start"
  /\ mainFrame /\ UNCHANGED <<img_cout, files, histVars>>

\* main.cpp:73-83: start the exposure, allocate the buffer, enter the loop
PStartExposure ==
  /\ pc = "p_start"
  /\ startExposure
  /\ console' = Failed("start exposure failed!")
  /\ img_cout' = FrameCount
  /\ pc' = IF CaptureLoopContinues(img_cout') THEN "p_poll" ELSE "p_close"
  /\ mainFrame /\ UNCHANGED <<files, histVars>>

\* main.cpp:85-89: one turn of while(!pCamera->isImgDataAvailable())
PImgDataAvailable ==
  /\ pc = "p_poll"
  /\ isImgDataAvailable
  /\ readySeen' = (readySeen \/ (calls'[1].st = POA_OK /\ calls'[1].out = <<TRUE>>))
  /\ pc' = IF ~op'.ret[1] THEN "p_poll" ELSE "p_fetch"
  /\ console' = <<>>
  /\ mainFrame /\ UNCHANGED <<img_cout, files, lifeVars, videoGot>>

\* main.cpp:91-108
PGetImageData ==
  /\ pc = "p_fetch"
  /\ getImageData(CppWidth * CppHeight)
  /\ IF ~op'.ret[1]
       THEN /\ console' = <<"get image data failed!">>
            /\ pc' = "p_poll"
            /\ UNCHANGED <<img_cout, files>>
       ELSE /\ files' = Append(files, FileName(img_cout, "raw8"))
            /\ console' = <<"writing: " \o FileName(img_cout, "raw8")>>
            /\ img_cout' = img_cout - 1
            /\ pc' = IF CaptureLoopContinues(img_cout') THEN "p_poll" ELSE "p_close"
  /\ readySeen' = FALSE
  /\ mainFrame /\ UNCHANGED <<lifeVars, videoGot>>

\* main.cpp:110-124
PCloseCamera ==
  /\ pc = "p_close"
  /\ closeCamera
  /\ closeCount' = closeCount + 1
  /\ console' = <<"camera closed!">>
  /\ pc' = "done"
  /\ mainFrame
  /\ UNCHANGED <<img_cout, files, openOK, initOK, readySeen, videoGot>>

Next ==
  \/ CEnumerate
  \/ COpenCamera
  \/ CInitCamera
  \/ CGetConfigs
  \/ CStopIfExposing
  \/ CSetImageBin
  \/ CGetImageStartPos
  \/ CGetImageSize
  \/ CSetImageSize
  \/ CSetImageStartPos
  \/ CSetImageFormat
  \/ CSetExposureUs
  \/ CSetExposureS
  \/ CSetGain
  \/ CStartExposure
  \/ CImageReady
  \/ CGetImageData
  \/ CStopExposure
  \/ CSetSnapExposureUs
  \/ CSetSnapExposureS
  \/ CStartSnap
  \/ CPollSnapState
  \/ CSnapReady
  \/ CSnapGetImageData
  \/ CSetVideoExposure
  \/ CStartVideo
  \/ CVideoTest
  \/ CVideoImageReady
  \/ CVideoGetImageData
  \/ CStopVideo
  \/ CCoolerOn
  \/ CFanPower
  \/ CHeaterPower
  \/ CCoolerPower
  \/ CSensorModes
  \/ CGetSensorMode
  \/ CSetSensorMode
  \/ CCloseCamera
  \/ PEnumerate
  \/ POpenCamera
  \/ PInitCamera
  \/ PGetAllConfigAttributes
  \/ PSetImageSize
  \/ PSetImageStartPos
  \/ PSetImageFormat
  \/ PSetExposure
  \/ PSetGain
  \/ PStartExposure
  \/ PImgDataAvailable
  \/ PGetImageData
  \/ PCloseCamera

Spec == Init /\ [][Next]_vars

\* the example programs on any of the sensors of SizeSensors
SizeInit == InitWith({"c", "cpp"}, SizeSensors)

SizeSpec == SizeInit /\ [][Next]_vars

ObjNext == ObjCall

ObjSpec == ObjInit /\ [][ObjNext]_vars

\* ------------------------------------------------------------ fairness
\* A poll of the ready flag in which the SDK reports the image as ready.
ReadyReported ==
  /\ CImageReady \/ CVideoImageReady \/ PImgDataAvailable
  /\ calls'[1].st = POA_OK /\ calls'[1].out = <<TRUE>>

\* A POAGetImageData call that returns POA_OK.
FetchSucceeded ==
  /\ CGetImageData \/ CVideoGetImageData \/ PGetImageData
  /\ calls'[Len(calls')].st = POA_OK

\* The single-threaded program always takes its next step; the SDK eventually
\* reports the image as ready and eventually delivers it.
FairSpec ==
  Spec /\ WF_vars(Next) /\ SF_vars(ReadyReported) /\ SF_vars(FetchSucceeded)

\* ============================================================== claims
LastCall == calls[Len(calls)]

Issued(fn) == \E i \in DOMAIN calls : calls[i].fn = fn

InCaptureLoop == pc \in {"c_poll", "c_fetch", "p_poll", "p_fetch"}

InVideoLoop == pc \in {"c_vidtest", "c_vidpoll", "c_vidfetch"}

\* C1: every SDK call of the last step that returned a status other than
\* POA_OK had that status printed through POAGetErrorString.
C1_EveryStatusReported ==
  \A i \in DOMAIN calls :
    calls[i].st \in Errors => [call |-> i, code |-> calls[i].st] \in printed

NeedsInit ==
  {"POAGetConfigsCount", "POAGetConfigAttributes", "POASetImageBin",
   "POAGetImageStartPos", "POAGetImageSize", "POASetImageSize",
   "POASetImageStartPos", "POASetImageFormat", "POASetConfig", "POAGetConfig",
   "POAStartExposure", "POAImageReady", "POAGetImageData"}

NeedsOpen == NeedsInit \cup {"POAInitCamera"}

\* C2: no init, configuration, exposure, poll or fetch call is issued unless
\* POAOpenCamera returned POA_OK before, and none but init unless
\* POAInitCamera returned POA_OK before.
C2_OpenInitBeforeUse ==
  \A i \in DOMAIN calls :
    /\ calls[i].fn \in NeedsOpen => openOK
    /\ calls[i].fn \in NeedsInit => initOK

\* C3: a program that opened the camera has, when it exits, called
\* POACloseCamera exactly once, as its last SDK call.
C3_ClosedOnceOnExit ==
  (pc = "done" /\ openOK) =>
    (closeCount = 1 /\ calls # <<>> /\ LastCall.fn = "POACloseCamera")

\* C4: every POAGetImageData call is issued only after a poll saw the image
\* ready since the previous POAGetImageData call, and the wrapper reports
\* "not available" when POAImageReady fails.
C4_FetchOnlyAfterReady ==
  /\ [][(\E i \in DOMAIN calls' : calls'[i].fn = "POAGetImageData") => readySeen]_vars
  /\ [](op.name = "isImgDataAvailable" /\ calls[1].st \in Errors
          => op.ret = <<FALSE>>)

\* C4 witness: inside a capture loop a fetch has just failed after an earlier
\* frame was saved, and the loop is back at polling.
C4_Witness ==
  /\ pc \in {"c_poll", "p_poll"}
  /\ files # <<>>
  /\ calls # <<>> /\ LastCall.fn = "POAGetImageData" /\ LastCall.st \in Errors

\* C5 (as stated): from inside the 10-frame loop the program reaches the
\* close step.
C5_LoopReachesClose == InCaptureLoop ~> (closeCount = 1)

\* C5 (amended): the 10-frame loop is left only with the frame counter at 0,
\* the counter goes down only on a successful fetch that followed a ready
\* poll, and the loop terminates; the program then reaches close unless it is
\* the C program waiting forever for the snap exposure to end.
C5_LoopExitsOnlyAtZero ==
  /\ [][(InCaptureLoop /\ ~InCaptureLoop') => (img_cout' = 0)]_vars
  /\ [][img_cout' < img_cout =>
          /\ readySeen
          /\ calls'[Len(calls')].fn = "POAGetImageData"
          /\ calls'[Len(calls')].st = POA_OK]_vars
  /\ InCaptureLoop ~> ~InCaptureLoop
  /\ (<>[](pc = "c_snapstate")) \/ (InCaptureLoop ~> (closeCount = 1))

\* C5 witness: the loop has ended with the counter at 0 after ten frames.
C5_Witness ==
  pc \in {"c_stop1", "p_close"} /\ img_cout = 0 /\ Len(files) = 10

C6_Raw16Names ==
  <<"10_raw16_image_data.bin", "9_raw16_image_data.bin",
    "8_raw16_image_data.bin", "7_raw16_image_data.bin",
    "6_raw16_image_data.bin", "5_raw16_image_data.bin",
    "4_raw16_image_data.bin", "3_raw16_image_data.bin",
    "2_raw16_image_data.bin", "1_raw16_image_data.bin">>

C6_Raw8Names ==
  <<"10_raw8_image_data.bin", "9_raw8_image_data.bin",
    "8_raw8_image_data.bin", "7_raw8_image_data.bin",
    "6_raw8_image_data.bin", "5_raw8_image_data.bin",
    "4_raw8_image_data.bin", "3_raw8_image_data.bin",
    "2_raw8_image_data.bin", "1_raw8_image_data.bin">>

\* C6: a file is written only right after a successful POAGetImageData, named
\* after the current counter; the counter goes down only with a write; the
\* files written are always the first 10 - counter names of 10, 9, ..., 1,
\* all different; a failed fetch writes nothing and keeps the counter; a run
\* that reaches close has written exactly 10 files.
C6_FilesFollowCounter ==
  /\ []((img_cout > 0 \/ files # <<>>) =>
          /\ Len(files) = 10 - img_cout
          /\ files = SubSeq(IF prog = "c" THEN C6_Raw16Names ELSE C6_Raw8Names,
                            1, Len(files))
          /\ \A i, j \in DOMAIN files : i # j => files[i] # files[j])
  /\ [][files' # files =>
          /\ calls'[Len(calls')].fn = "POAGetImageData"
          /\ calls'[Len(calls')].st = POA_OK
          /\ Len(files') = Len(files) + 1
          /\ img_cout' = img_cout - 1]_vars
  /\ [][(img_cout > 0 /\ img_cout' # img_cout) => (files' # files)]_vars
  /\ [][(InCaptureLoop /\ pc' \in {"c_poll", "p_poll"} /\ pc \in {"c_fetch", "p_fetch"}
          /\ calls'[Len(calls')].st \in Errors)
          => (files' = files /\ img_cout' = img_cout)]_vars
  /\ [](closeCount = 1 => Len(files) = 10)

\* C6 witness: a program has finished after writing its ten files.
C6_Witness == pc = "done" /\ Len(files) = 10 /\ img_cout = 0

\* C7: the buffer size passed to POAGetImageData equals the camera's current
\* width x height x bytes per pixel of its current format.
C7_BufferMatchesCamera ==
  \A i \in DOMAIN calls :
    (calls[i].fn = "POAGetImageData" /\ calls[i].id = FirstCameraID) =>
      calls[i].args[1] = cam.width * cam.height * PixelBytes(cam.fmt)

\* the SDK calls of a POACamera operation carry the caller's argument values
C8_ArgsForwarded ==
  \A i \in DOMAIN calls :
    /\ (op.name \in {"setImageSize", "setImageStartPos"}
          /\ calls[i].fn \in {"POASetImageSize", "POASetImageStartPos"})
        => calls[i].args = op.args
    /\ (op.name = "setROIArea" /\ calls[i].fn = "POASetImageSize")
        => calls[i].args = <<op.args[1].width, op.args[1].height>>
    /\ (op.name = "setROIArea" /\ calls[i].fn = "POASetImageStartPos")
        => calls[i].args = <<op.args[1].startX, op.args[1].startY>>
    /\ op.name = "setExposure"
        => calls[i].args = <<"POA_EXPOSURE", op.args[1], op.args[2]>>
    /\ op.name = "setGain"
        => calls[i].args = <<"POA_GAIN", op.args[1], op.args[2]>>

\* C8: a default-constructed object holds -1; the handle changes only through
\* the constructor argument or setCameraID; every other operation leaves it
\* unchanged, passes exactly the stored handle to the SDK, and passes exactly
\* the caller's argument values.
C8_HandleOnlyForwarded ==
  /\ [](op.name = "POACamera" =>
          m_nCameraID = (IF op.args = <<>> THEN -1 ELSE op.args[1]))
  /\ [][IF op'.name = "setCameraID"
          THEN m_nCameraID' = op'.args[1]
          ELSE m_nCameraID' = m_nCameraID]_vars
  /\ [](op.name # "getALLCameraIDName" =>
          \A i \in DOMAIN calls : calls[i].id = m_nCameraID)
  /\ []C8_ArgsForwarded

\* C8 witness: setROIArea on a valid handle stopped an exposure, set the size
\* and failed on the start position.
C8_Witness ==
  /\ op.name = "setROIArea" /\ op.ret = <<FALSE>>
  /\ Len(calls) = 4 /\ m_nCameraID = 0

ImageParamSetters ==
  {"POASetImageSize", "POASetImageStartPos", "POASetImageFormat"}

\* C9: a POASetImageSize, POASetImageStartPos or POASetImageFormat call
\* reaches the SDK only when the camera is not exposing.
C9_NoImageParamWhileExposing ==
  (\E i \in DOMAIN calls :
      calls[i].fn \in ImageParamSetters /\ calls[i].id = FirstCameraID)
    => cam.state # "STATE_EXPOSING"

\* C10 (as stated): the video loop retrieves no more than 20 images.
C10_AtMost20Images == videoGot <= 20

\* C10 (amended): the video loop is left only from its test with the counter
\* above 20, the counter goes up on every turn whether or not the fetch
\* succeeded, the fetches are exactly the turns 1..21, no more than 21 images
\* are retrieved, and POAStopExposure is the next call after the loop.
C10_VideoLoopBounded ==
  /\ [](videoGot <= 21)
  /\ [](pc \in {"c_vidpoll", "c_vidfetch"} => count \in 1..21)
  /\ [](pc = "c_stop2" => count \in {0, 22})
  /\ [][(InVideoLoop /\ ~InVideoLoop') =>
          (pc = "c_vidtest" /\ count > 20 /\ pc' = "c_stop2")]_vars
  /\ [][pc = "c_vidtest" => (count' = count + 1)]_vars
  /\ [][pc = "c_vidfetch" =>
          (pc' = "c_vidtest" /\ count' = count
           /\ calls'[1].fn = "POAGetImageData")]_vars
  /\ [][(pc \in {"c_vidstart", "c_vidtest"} /\ ~InVideoLoop') => (pc' = "c_stop2")]_vars
  /\ [][pc = "c_stop2" => (calls'[1].fn = "POAStopExposure")]_vars

\* C10 witness: the loop has ended after every one of its fetches succeeded.
C10_Witness == pc = "c_stop2" /\ videoGot = 21 /\ count = 22

\* C11: the snap wait of the C example is left only when the state it
\* observed is not STATE_EXPOSING; POAImageReady is then called once, the
\* snap frame is fetched only if that reading was true, "single frame
\* exposure success" is printed iff it was true and "single frame exposure
\* failed" otherwise, and both branches go on to the video-mode step.
C11_SnapSequence ==
  /\ [][pc = "c_snapstate" =>
          (/\ Len(calls') = 1 /\ calls'[1].fn = "POAGetCameraState"
           /\ pc' = IF cmeraState' = "STATE_EXPOSING"
                      THEN "c_snapstate" ELSE "c_snapready")]_vars
  /\ [][pc' = "c_snapready" => (pc = "c_snapstate")]_vars
  /\ [][pc = "c_snapready" =>
          (/\ Len(calls') = 1 /\ calls'[1].fn = "POAImageReady"
           /\ IF calls'[1].out = <<TRUE>>
                THEN /\ console' = <<"single frame exposure success">>
                     /\ pc' = "c_snapfetch"
                ELSE /\ console' = <<"single frame exposure failed">>
                     /\ pc' = "c_vidsetexp")]_vars
  /\ [][pc' = "c_snapfetch" => (pc = "c_snapready")]_vars
  /\ [][pc = "c_snapfetch" =>
          (/\ Len(calls') = 1 /\ calls'[1].fn = "POAGetImageData"
           /\ pc' = "c_vidsetexp")]_vars
  /\ [][pc' = "c_vidsetexp" => (pc \in {"c_snapready", "c_snapfetch"})]_vars

\* C11 witness: the snap frame was reported ready and fetched, and the
\* program stands at the video-mode step.
C11_Witness ==
  /\ pc = "c_vidsetexp" /\ cmeraState # "STATE_EXPOSING"
  /\ calls # <<>> /\ LastCall.fn = "POAGetImageData" /\ LastCall.st = POA_OK

\* C12: in the C example the width and the height passed to POASetImageSize
\* are multiples of 4 and of 2 and strictly positive, and the buffer size
\* width * height * 2 computed from them is strictly positive and fits in
\* 32-bit int arithmetic.
C12_SizeAlignedPositiveFits ==
  prog = "c" =>
    /\ \A i \in DOMAIN calls :
         calls[i].fn = "POASetImageSize" =>
           /\ CRem(calls[i].args[1], 4) = 0 /\ CRem(calls[i].args[2], 2) = 0
           /\ calls[i].args[1] > 0 /\ calls[i].args[2] > 0
    /\ (calls # <<>> /\ LastCall.fn = "POAStartExposure" /\ pc = "c_poll") =>
         (FitsInt32(width, height) /\ buffer_size > 0)

\* C13: setROIArea issues POASetImageSize once and POASetImageStartPos only
\* after it returned POA_OK, and returns true iff both returned POA_OK; when
\* the size fails the ROI of the camera is unchanged; when the size succeeds
\* and the start position fails it returns false with the new size applied
\* and the old start position kept; it never starts an exposure, so one it
\* stopped stays stopped.
C13_RoiSizeThenPosNoRollback ==
  [][op'.name = "setROIArea" =>
      LET roi == op'.args[1]
          n == Len(calls')
          sizeAt == {i \in 1..n : calls'[i].fn = "POASetImageSize"}
          posAt == {i \in 1..n : calls'[i].fn = "POASetImageStartPos"}
          stopped == \E i \in 1..n : /\ calls'[i].fn = "POAStopExposure"
                                     /\ calls'[i].st = POA_OK
                                     /\ calls'[i].id = FirstCameraID
      IN /\ Cardinality(sizeAt) = 1
         /\ \A i \in 1..n : calls'[i].fn # "POAStartExposure"
         /\ stopped => cam'.state # "STATE_EXPOSING"
         /\ cam.state # "STATE_EXPOSING" => cam'.state = cam.state
         /\ \A i \in sizeAt :
              /\ calls'[i].args = <<roi.width, roi.height>>
              /\ IF calls'[i].st # POA_OK
                   THEN /\ posAt = {} /\ i = n
                        /\ op'.ret = <<FALSE>>
                        /\ cam'.width = cam.width /\ cam'.height = cam.height
                        /\ cam'.startX = cam.startX /\ cam'.startY = cam.startY
                   ELSE /\ posAt = {i + 1} /\ n = i + 1
                        /\ calls'[n].args = <<roi.startX, roi.startY>>
                        /\ op'.ret = <<calls'[n].st = POA_OK>>
                        /\ (calls'[i].id = FirstCameraID) =>
                             (cam'.width = roi.width /\ cam'.height = roi.height)
                        /\ calls'[n].st # POA_OK =>
                             (cam'.startX = cam.startX /\ cam'.startY = cam.startY)]_vars

\* C13 witness: setROIArea stopped a running exposure, set the size, failed
\* on the start position and returned false; the camera has the new size,
\* another start position than the one asked for, and is not exposing.
C13_Witness ==
  /\ op.name = "setROIArea" /\ op.ret = <<FALSE>>
  /\ m_nCameraID = FirstCameraID
  /\ Len(calls) = 4
  /\ calls[2].fn = "POAStopExposure" /\ calls[2].st = POA_OK
  /\ calls[3].fn = "POASetImageSize" /\ calls[3].st = POA_OK
  /\ calls[4].fn = "POASetImageStartPos" /\ calls[4].st # POA_OK
  /\ cam.width = op.args[1].width /\ cam.height = op.args[1].height
  /\ cam.startX # op.args[1].startX
  /\ cam.state = "STATE_OPENED"

\* C14: the two format mappings are inverse of each other: getImageFormat
\* called right after setImageFormat(f) returned true, on the same camera and
\* with POAGetImageFormat succeeding, returns f, for each of the four
\* formats; when POAGetImageFormat fails or reports POA_END, getImageFormat
\* returns RAW8.
C14_FormatRoundTrip ==
  /\ [](\A f \in ImageFormats : FromPOAImgFormat(ToPOAImgFormat(f)) = f)
  /\ [](\A g \in POAImgFormats : ToPOAImgFormat(FromPOAImgFormat(g)) = g)
  /\ [][(/\ op.name = "setImageFormat" /\ op.ret = <<TRUE>>
          /\ op'.name = "getImageFormat"
          /\ calls'[1].st = POA_OK
          /\ calls'[1].id = FirstCameraID /\ LastCall.id = FirstCameraID)
         => (op'.ret = <<op.args[1]>>)]_vars
  /\ [](op.name = "setImageFormat" /\ op.ret = <<TRUE>>
          /\ LastCall.id = FirstCameraID
          => cam.fmt = ToPOAImgFormat(op.args[1]))
  /\ [](op.name = "getImageFormat"
          /\ (calls[1].st # POA_OK \/ calls[1].out = <<"POA_END">>)
          => op.ret = <<"RAW8">>)

\* C14 witness: getImageFormat has just returned RGB888 for a camera that
\* setImageFormat(RGB888) put into POA_RGB24.
C14_Witness ==
  /\ op.name = "getImageFormat" /\ op.ret = <<"RGB888">>
  /\ calls[1].st = POA_OK /\ calls[1].id = FirstCameraID
  /\ calls[1].out = <<"POA_RGB24">> /\ cam.fmt = "POA_RGB24"

\* C15: getExposure and getGain return the value the SDK wrote when
\* POAGetConfig succeeded and -1 when it failed; getImageData queries the
\* exposure and passes POAGetImageData the timeout exposure / 1000 + 500 with
\* the quotient truncated toward zero: at least 500 for an exposure that is
\* not negative, exactly 500 when the query failed.
C15_GetConfigAndTimeout ==
  /\ op.name \in {"getExposure", "getGain"} =>
       /\ Len(calls) = 1 /\ calls[1].fn = "POAGetConfig"
       /\ calls[1].args = <<IF op.name = "getGain" THEN "POA_GAIN"
                                                   ELSE "POA_EXPOSURE">>
       /\ op.ret = IF calls[1].st = POA_OK THEN calls[1].out ELSE <<-1>>
  /\ op.name = "getImageData" =>
       /\ Len(calls) = 2
       /\ calls[1].fn = "POAGetConfig" /\ calls[1].args = <<"POA_EXPOSURE">>
       /\ calls[2].fn = "POAGetImageData"
       /\ LET us == IF calls[1].st = POA_OK THEN calls[1].out[1] ELSE -1
              ms == calls[2].args[2] - 500
          IN /\ us >= 0 => (ms >= 0 /\ us - ms * 1000 \in 0..999)
             /\ us = -1 => ms = 0
             /\ calls[1].st # POA_OK => calls[2].args[2] = 500

\* C15 witness: getImageData fetched an image with the timeout 500 after its
\* exposure query had failed.
C15_Witness ==
  /\ op.name = "getImageData" /\ op.ret = <<TRUE>>
  /\ calls[1].st # POA_OK
  /\ calls[2].args[2] = 500

====
